---- MODULE Spec2Model ----
(***************************************************************************)
(* Model of the two data-preparation scripts of kutubyi/characterbot:      *)
(*   src/prepare_finetune_data.py  (merge_finetune_data and its helpers)   *)
(*   src/prepare_pretrain_data.py  (merge_json_files and its helpers)      *)
(*                                                                         *)
(* Python values are represented as follows.                               *)
(*   str        a sequence of tokens (each token a piece of text); ""      *)
(*              is <<>>; " " and "\n" are the whitespace tokens            *)
(*   dict       a function whose domain is the set of keys present         *)
(*   list       a sequence                                                 *)
(*   JSON value whose Python type the code discriminates at run time       *)
(*              (by isinstance, len(), iteration or attribute lookup):     *)
(*              a record [t |-> type tag, v |-> payload]                   *)
(*   float train_ratio   the rational num/den (0.0, 0.5, 0.8 and 1.0 give  *)
(*              int(n * ratio) = (n * num) \div den for every n < 10^5)    *)
(***************************************************************************)
EXTENDS Integers, Sequences, FiniteSets, TLC

VARIABLES
    \* --- the run of one pipeline (Spec) ---
    pipeline,            \* "finetune" (merge_finetune_data) or "pretrain" (merge_json_files)
    pc,                  \* position of the run in the function body
    exc,                 \* "none", or the exception that ended the run
    raised_at,           \* "none", or the pc at which exc was raised
    mcq_data, qa_data, style_data,                 \* merge_finetune_data locals
    converted_mcq, converted_qa, converted_style,
    merged_data, train_data, test_data,
    original_data, reframe_data,                   \* merge_json_files locals
    converted_original, converted_reframe,
    author,              \* merge_json_files argument
    output_dir,          \* merge_finetune_data argument / merge_json_files local
    output_path,         \* merge_json_files argument
    fs_dirs,             \* the directories that exist
    fs_files,            \* output file name -> its content on disk
    fs_files0,           \* fs_files as it was when the run started
    fs_dirs0,            \* fs_dirs as it was when the run started
    open_files,          \* the file objects currently open (not yet closed)
    \* --- one call of split_train_test (SplitSpec) ---
    data, train_ratio,   \* the arguments
    ret,                 \* [called |-> BOOLEAN, train |-> list, test |-> list]
    \* --- history ---
    inputs               \* input file -> what the run found there so far

run_vars == <<pipeline, pc, exc, raised_at, mcq_data, qa_data, style_data,
              converted_mcq, converted_qa, converted_style, merged_data,
              train_data, test_data, original_data, reframe_data,
              converted_original, converted_reframe, author, output_dir, output_path,
              fs_dirs, fs_files, fs_files0, fs_dirs0, open_files, inputs>>
call_vars == <<data, train_ratio, ret>>
vars == <<run_vars, call_vars>>

(***************************************************************************)
(* Bounds of the model                                                     *)
(***************************************************************************)
MaxEntries == 1      \* entries per input JSON array
MaxItems == 2        \* qa_pairs / transformed_sentences items per entry
MaxLen == 10         \* length of the list handed to one split_train_test call
MaxOther == 3        \* records of that list not labelled "2"

(***************************************************************************)
(* Python primitives                                                       *)
(***************************************************************************)
Min(a, b) == IF a <= b THEN a ELSE b
Max(a, b) == IF a >= b THEN a ELSE b

\* dict.get(key, default)
Get(d, key, default) == IF key \in DOMAIN d THEN d[key] ELSE default

\* the empty dict {}
EmptyDict == [k \in {} |-> <<>>]

\* seq[lo:hi] for 0 <= lo, hi (already normalised indices)
SubList(s, lo, hi) == IF hi <= lo THEN <<>> ELSE SubSeq(s, lo + 1, hi)

\* normalisation of a slice bound k for a list of length n
\* (negative bounds count from the end, all bounds are clamped to 0..n)
SliceIndex(k, n) == IF k < 0 THEN Max(n + k, 0) ELSE Min(k, n)

\* items[:k] and items[k:]
SliceTo(s, k) == SubList(s, 0, SliceIndex(k, Len(s)))
SliceFrom(s, k) == SubList(s, SliceIndex(k, Len(s)), Len(s))

\* int(x) of the float x = a / b (b > 0): truncation toward zero
IntTrunc(a, b) == IF a >= 0 THEN a \div b ELSE -((-a) \div b)

Whitespace == {" ", "\n"}

RECURSIVE LStrip(_)
LStrip(s) == IF s # <<>> /\ Head(s) \in Whitespace THEN LStrip(Tail(s)) ELSE s
RECURSIVE RStrip(_)
RStrip(s) ==
    IF s # <<>> /\ s[Len(s)] \in Whitespace THEN RStrip(SubSeq(s, 1, Len(s) - 1)) ELSE s
\* str.strip()
Strip(s) == RStrip(LStrip(s))

\* s1 + s2 + ... for a list of lists
RECURSIVE Concat(_)
Concat(ss) == IF ss = <<>> THEN <<>> ELSE Head(ss) \o Concat(Tail(ss))

(***************************************************************************)
(* split_train_test (prepare_finetune_data.py 79-95)                       *)
(***************************************************************************)
\* item.get("label", "unknown")
LabelOf(item) == Get(item, "label", "unknown")

\* labels_dict after the first i items of data were grouped (lines 80-85).
\* A Python dict iterates in insertion order: it is kept as the sequence of
\* its [label, items] pairs in order of insertion.
RECURSIVE GroupByLabel(_, _)
GroupByLabel(d, i) ==
    IF i = 0 THEN <<>>
    ELSE LET labels_dict == GroupByLabel(d, i - 1)
             item == d[i]
             label == LabelOf(item)
         IN  IF \E j \in DOMAIN labels_dict : labels_dict[j].label = label
             THEN [j \in DOMAIN labels_dict |->
                     IF labels_dict[j].label = label
                     THEN [labels_dict[j] EXCEPT !.items = Append(@, item)]
                     ELSE labels_dict[j]]
             ELSE Append(labels_dict, [label |-> label, items |-> <<item>>])

\* a faulty variant: round to the nearest integer instead of truncating
split_idx_rounded(n, ratio) == IntTrunc(2 * n * ratio.num + ratio.den, 2 * ratio.den)
\* split_idx = int(len(items) * train_ratio)   (line 91)
split_idx(n, ratio) == IntTrunc(n * ratio.num, ratio.den)

\* a faulty variant: the test slice starts one past split_idx
test_slice_skips_one(items, idx) == SliceFrom(items, idx + 1)
\* items[split_idx:]   (line 93)
test_slice(items, idx) == SliceFrom(items, idx)

\* items[:split_idx]   (line 92)
train_slice(items, idx) == SliceTo(items, idx)

\* the loop of lines 90-93 and the return of line 95
split_train_test(d, ratio) ==
    LET labels_dict == GroupByLabel(d, Len(d))
        idx(j) == split_idx(Len(labels_dict[j].items), ratio)
    IN  [train |-> Concat([j \in DOMAIN labels_dict |->
                             train_slice(labels_dict[j].items, idx(j))]),
         test  |-> Concat([j \in DOMAIN labels_dict |->
                             test_slice(labels_dict[j].items, idx(j))])]

\* a faulty variant: the test share is used as the training share
TrainRatio_of_test == [num |-> 1, den |-> 5]
\* train_ratio=0.8 (line 119; also the default of line 79)
TrainRatio == [num |-> 4, den |-> 5]

(***************************************************************************)
(* One call of split_train_test on an arbitrary list (SplitSpec)           *)
(***************************************************************************)
\* the label of a record of the argument list; NoLabel: the record has no
\* "label" key
NoLabel == "<no label key>"
SplitLabels == {"1", "2", NoLabel}

\* the i-th record of an argument list whose labels are ls: records are
\* told apart by their "output" field
SplitRecord(i, l) ==
    IF l = NoLabel THEN [output |-> <<ToString(i)>>]
    ELSE [output |-> <<ToString(i)>>, label |-> l]

\* train_ratio values: 0.0, 0.5, 0.8 and 1.0
Ratios == { [num |-> 0, den |-> 1], [num |-> 1, den |-> 2],
            [num |-> 4, den |-> 5], [num |-> 1, den |-> 1] }

NotCalled == [called |-> FALSE, train |-> <<>>, test |-> <<>>]

\* no pipeline is running
RunIdle ==
    /\ pipeline = "none" /\ pc = "idle" /\ exc = "none" /\ raised_at = "none"
    /\ mcq_data = <<>> /\ qa_data = <<>> /\ style_data = <<>> /\ inputs = <<>>
    /\ converted_mcq = <<>> /\ converted_qa = <<>> /\ converted_style = <<>>
    /\ merged_data = <<>> /\ train_data = <<>> /\ test_data = <<>>
    /\ original_data = <<>> /\ reframe_data = <<>>
    /\ converted_original = <<>> /\ converted_reframe = <<>>
    /\ author = <<>> /\ output_dir = "" /\ output_path = "" /\ fs_dirs = {} /\ fs_dirs0 = {}
    /\ fs_files = <<>> /\ fs_files0 = <<>> /\ open_files = {}

\* The argument lists: up to MaxLen records, each labelled "2", labelled "1"
\* or without a label key, of which at most MaxOther are not labelled "2"
\* (every list of up to MaxOther records, and longer ones with a large group).
OtherCount(d) == Cardinality({ i \in DOMAIN d : LabelOf(d[i]) # "2" })

SplitInit ==
    /\ RunIdle
    /\ data = <<>>
    /\ train_ratio \in Ratios
    /\ ret = NotCalled

\* the caller builds the argument list, one record at a time
SplitArgument ==
    /\ ~ret.called
    /\ Len(data) < MaxLen
    /\ \E l \in SplitLabels :
          /\ l # "2" => OtherCount(data) < MaxOther
          /\ data' = Append(data, SplitRecord(Len(data) + 1, l))
    /\ UNCHANGED <<train_ratio, ret, run_vars>>

\* train_data, test_data = split_train_test(data, train_ratio)
SplitCall ==
    /\ ~ret.called
    /\ LET r == split_train_test(data, train_ratio)
       IN  ret' = [called |-> TRUE, train |-> r.train, test |-> r.test]
    /\ UNCHANGED <<data, train_ratio, run_vars>>

SplitNext == SplitArgument \/ SplitCall

SplitSpec == SplitInit /\ [][SplitNext]_vars

(***************************************************************************)
(* Properties of split_train_test, stated without the code's grouping      *)
(***************************************************************************)
\* the effective label values occurring in a list
LabelsIn(d) == { LabelOf(d[i]) : i \in DOMAIN d }
\* G_L: the subsequence of the records labelled L, in input order
Group(d, L) == SelectSeq(d, LAMBDA r : LabelOf(r) = L)
\* the index of the first record labelled L
FirstSeen(d, L) ==
    CHOOSE i \in DOMAIN d :
        LabelOf(d[i]) = L /\ \A j \in 1..(i - 1) : LabelOf(d[j]) # L
\* the labels of a list in order of first occurrence
LabelOrder(d) ==
    [r \in 1..Cardinality(LabelsIn(d)) |->
        CHOOSE L \in LabelsIn(d) :
            Cardinality({ M \in LabelsIn(d) : FirstSeen(d, M) <= FirstSeen(d, L) }) = r]
\* floor(n * ratio) for a ratio >= 0
FloorOf(n, ratio) == (n * ratio.num) \div ratio.den
\* the concatenation, in label-first-seen order, of the first k_L records
\* of each group, and of the remaining ones
ExpectedTrain(d, ratio) ==
    LET order == LabelOrder(d)
    IN  Concat([r \in DOMAIN order |->
                  SubSeq(Group(d, order[r]), 1, FloorOf(Len(Group(d, order[r])), ratio))])
ExpectedTest(d, ratio) ==
    LET order == LabelOrder(d)
    IN  Concat([r \in DOMAIN order |->
                  SubSeq(Group(d, order[r]),
                         FloorOf(Len(Group(d, order[r])), ratio) + 1,
                         Len(Group(d, order[r])))])
\* the number of occurrences of x in s
Count(s, x) == Cardinality({ i \in DOMAIN s : s[i] = x })

\* C1: for every input list (and every ratio in [0, 1]) the returned training
\* list is the concatenation, over the labels in order of first occurrence, of
\* the first floor(|G_L| * train_ratio) records of each label group G_L, and
\* the returned test list is the concatenation in the same order of the
\* remaining records of each group.
C1_SplitIsPerLabelPrefix ==
    ret.called =>
        /\ ret.train = ExpectedTrain(data, train_ratio)
        /\ ret.test = ExpectedTest(data, train_ratio)

\* C1 witness: a call with ratio 0.8 on a list that is one group of 10
\* records: the first 8 are the training list, the last 2 the test list.
C1_Witness ==
    /\ ret.called
    /\ train_ratio = TrainRatio
    /\ Len(Group(data, "2")) = 10
    /\ ret.train = SubSeq(data, 1, 8)
    /\ ret.test = SubSeq(data, 9, 10)

\* C10: for every input list and every train_ratio in [0, 1), split_train_test
\* partitions its input: every record occurrence is in exactly one of the two
\* returned lists, records sharing a label keep their input order (training
\* records first), and every label of the input has a record in the test list.
C10_SplitPartitions ==
    (ret.called /\ train_ratio.num < train_ratio.den) =>
        /\ Len(ret.train) + Len(ret.test) = Len(data)
        /\ \A i \in DOMAIN data :
              Count(ret.train, data[i]) + Count(ret.test, data[i]) = Count(data, data[i])
        /\ \A L \in LabelsIn(data) :
              /\ Group(ret.train, L) \o Group(ret.test, L) = Group(data, L)
              /\ Group(ret.test, L) # <<>>

\* C10 witness: a call with a ratio below 1 on a list with three label groups
\* (one of them the records without a label key), of which one has a single
\* record.
C10_Witness ==
    /\ ret.called
    /\ train_ratio.num < train_ratio.den
    /\ Cardinality(LabelsIn(data)) = 3
    /\ \E L \in LabelsIn(data) : Len(Group(data, L)) = 1
    /\ ret.train # <<>>

(***************************************************************************)
(* JSON documents                                                          *)
(***************************************************************************)
JArray(elems) == [t |-> "array", v |-> elems]
JObject(d) == [t |-> "object", v |-> d]
JString(str) == [t |-> "string", v |-> str]
JNumber == [t |-> "number", v |-> <<>>]
JNull == [t |-> "null", v |-> <<>>]
\* a file whose text is not JSON
InvalidJson == [t |-> "invalid", v |-> <<>>]
\* a local variable not assigned yet
Unset == [t |-> "unset", v |-> <<>>]

\* len(x) raises TypeError unless x is a list, a dict or a str
Sized(x) == x.t \in {"array", "object", "string"}

\* the keys of a dict, as a list in some fixed order
RECURSIVE KeyList(_)
KeyList(ks) ==
    IF ks = {} THEN <<>>
    ELSE LET k == CHOOSE x \in ks : TRUE IN <<k>> \o KeyList(ks \ {k})

\* the values "for entry in x" binds entry to: the elements of a list, the
\* keys of a dict, the characters of a str
Iterate(x) ==
    CASE x.t = "array" -> x.v
      [] x.t = "object" -> LET ks == KeyList(DOMAIN x.v)
                           IN  [i \in DOMAIN ks |-> JString(<<ks[i]>>)]
      [] x.t = "string" -> [i \in DOMAIN x.v |-> JString(<<x.v[i]>>)]

\* entry.get raises AttributeError unless entry is a dict
HasGet(x) == x.t = "object"

\* the result of a call: the value returned, or the exception raised
Returned(value) == [exc |-> "none", value |-> value]
Raised(e) == [exc |-> e, value |-> <<>>]

(***************************************************************************)
(* The converters of prepare_finetune_data.py                              *)
(***************************************************************************)
\* "请在以下四个选项中选择一个最合适的答案。" (line 37)
MCQ_INSTRUCTION == <<"Choose the most suitable of the following four options.">>
\* "请将以下文本改写为更平白的表达方式。" (line 71)
STYLE_INSTRUCTION == <<"Rewrite the following text in a plainer way.">>

\* lines 29-34: the lines appended to input_text for the options
OptionLines(options) ==
    CASE options.t = "object" ->
            Concat([i \in DOMAIN options.v |->
                      options.v[i][1] \o <<": ">> \o options.v[i][2] \o <<"\n">>])
      [] options.t = "array" ->
            Concat([i \in DOMAIN options.v |-> options.v[i] \o <<"\n">>])
      [] OTHER -> <<>>

\* lines 23-41: the record of one qa of an MCQ entry
McqRecord(qa) ==
    LET question == Get(qa, "question", <<>>)
        options == Get(qa, "option", JObject(<<>>))
        answer == Get(qa, "answer", <<>>)
        input_text == question \o <<"\n">> \o OptionLines(options)
    IN  [instruction |-> MCQ_INSTRUCTION,
         input |-> Strip(input_text),
         output |-> answer,
         label |-> "1"]

\* lines 50-58: the record of one qa of a QA entry
QaRecord(qa) ==
    [instruction |-> Get(qa, "question", <<>>),
     input |-> <<>>,
     output |-> Get(qa, "answer", <<>>),
     label |-> "2"]

\* lines 67-75: the record of one item of a style entry
StyleRecord(item) ==
    [instruction |-> STYLE_INSTRUCTION,
     input |-> Get(item, "original", <<>>),
     output |-> Get(item, "plain", <<>>),
     label |-> "3"]

\* a faulty variant: only the first item of each entry is converted
ItemsOfFirstOnly(entry, key) == SliceTo(Get(entry, key, <<>>), 1)
\* entry.get(key, []) of lines 21, 48 and 65
ItemsOf(entry, key) == Get(entry, key, <<>>)

\* "for entry in entries: ... entry.get(...)": the first entry that is not a
\* dict raises AttributeError at entry.get (the records built so far are lost)
AllHaveGet(elems) == \A i \in DOMAIN elems : HasGet(elems[i])

\* lines 18-42
convert_mcq_to_alpaca(entries) ==
    LET elems == Iterate(entries)
    IN  IF ~AllHaveGet(elems) THEN Raised("AttributeError")
        ELSE Returned(Concat([i \in DOMAIN elems |->
                 LET qa_pairs == ItemsOf(elems[i].v, "qa_pairs")
                 IN  [j \in DOMAIN qa_pairs |-> McqRecord(qa_pairs[j])]]))

\* lines 45-59
convert_qa_to_alpaca(entries) ==
    LET elems == Iterate(entries)
    IN  IF ~AllHaveGet(elems) THEN Raised("AttributeError")
        ELSE Returned(Concat([i \in DOMAIN elems |->
                 LET qa_pairs == ItemsOf(elems[i].v, "qa_pairs")
                 IN  [j \in DOMAIN qa_pairs |-> QaRecord(qa_pairs[j])]]))

\* lines 62-76
convert_style_to_alpaca(entries) ==
    LET elems == Iterate(entries)
    IN  IF ~AllHaveGet(elems) THEN Raised("AttributeError")
        ELSE Returned(Concat([i \in DOMAIN elems |->
                 LET transformed == ItemsOf(elems[i].v, "transformed_sentences")
                 IN  [j \in DOMAIN transformed |-> StyleRecord(transformed[j])]]))

\* a faulty variant: the QA records come first
merged_qa_first(m, q, s) == q \o m \o s
\* merged_data = converted_mcq + converted_qa + converted_style (line 116)
merged(m, q, s) == m \o q \o s

(***************************************************************************)
(* The converters of prepare_pretrain_data.py                              *)
(***************************************************************************)
\* f"[作者: {author}][标题: {title}]" (line 23)
metadata(auth, title) == <<"[author: ">> \o auth \o <<"][title: ">> \o title \o <<"]">>

\* lines 21-25
OriginalRecord(entry, auth) ==
    LET title == Get(entry, "title", <<>>)
        text == Get(entry, "text", <<>>)
        full_text == metadata(auth, title) \o text
    IN  [text |-> full_text]

\* lines 32-33
ReframeRecord(entry) == [text |-> Get(entry, "text", <<>>)]

\* lines 18-26: one record per entry
convert_original_to_pretrain(entries, auth) ==
    LET elems == Iterate(entries)
    IN  IF ~AllHaveGet(elems) THEN Raised("AttributeError")
        ELSE Returned([i \in DOMAIN elems |-> OriginalRecord(elems[i].v, auth)])

\* lines 29-34: one record per entry
convert_reframe_to_pretrain(entries) ==
    LET elems == Iterate(entries)
    IN  IF ~AllHaveGet(elems) THEN Raised("AttributeError")
        ELSE Returned([i \in DOMAIN elems |-> ReframeRecord(elems[i].v)])

\* a faulty variant: the reframed records come first
merged_reframe_first(o, r) == r \o o
\* merged_data = converted_original + converted_reframe (line 51)
merged_pretrain(o, r) == o \o r

(***************************************************************************)
(* The input documents a run may find                                      *)
(***************************************************************************)
\* a piece of text that names position e.i of a document
Text(tag, e, i) == <<tag, ToString(e), ".", ToString(i)>>

\* The i-th item of the e-th entry. The fields an item has depend on its
\* place in the entry: the first item has all of them (option as a mapping),
\* the second has no answer/plain (option as a list), later ones have a
\* question/original only (option, where present, a string).
McqItem(e, i) ==
    CASE i = 1 -> [question |-> Text("Q", e, i),
                   option |-> JObject(<< <<<<"A">>, <<"x">>>>, <<<<"B">>, <<"y">>>> >>),
                   answer |-> <<"A">>]
      [] i = 2 -> [question |-> Text("Q", e, i) \o <<" ">>,
                   option |-> JArray(<< <<"cat">>, <<"dog">> >>)]
      [] i = 3 -> [question |-> Text("Q", e, i), option |-> JString(<<"A">>)]
      [] OTHER -> [question |-> Text("Q", e, i)]
QaItem(e, i) ==
    IF i = 1 THEN [question |-> Text("Q", e, i), answer |-> Text("A", e, i)]
    ELSE [question |-> Text("Q", e, i)]
StyleItem(e, i) ==
    IF i = 1 THEN [original |-> Text("O", e, i), plain |-> Text("P", e, i)]
    ELSE [original |-> Text("O", e, i)]

\* The shapes of an element of an input array of the fine-tune pipeline:
\* an entry with k items, or a value that is not an object. An entry with no
\* items has no items key at all at an odd place of the array and an empty
\* list of items at an even place.
ItemKinds == { <<"items", k>> : k \in 0..MaxItems } \cup { <<"nonobject", 0>> }

\* the key of the items of an entry of an input file, and its i-th item
ItemsKey(file) == IF file = "style" THEN "transformed_sentences" ELSE "qa_pairs"
ItemOf(file, e, i) ==
    CASE file = "mcq" -> McqItem(e, i)
      [] file = "qa" -> QaItem(e, i)
      [] OTHER -> StyleItem(e, i)
ItemsEntry(file, e, kind) ==
    CASE kind[1] = "nonobject" -> JNumber
      [] kind[2] = 0 /\ e % 2 = 1 -> JObject(EmptyDict)
      [] OTHER -> JObject([k \in {ItemsKey(file)} |->
                              [i \in 1..kind[2] |-> ItemOf(file, e, i)]])

\* The shapes of an element of the input arrays of the pretrain pipeline.
OriginalKinds == {"full", "emptytext", "notext", "notitle", "nonobject"}
OriginalEntry(e, kind) ==
    CASE kind = "full" -> JObject([title |-> Text("T", e, 0), text |-> Text("X", e, 0)])
      [] kind = "emptytext" -> JObject([title |-> Text("T", e, 0), text |-> <<>>])
      [] kind = "notext" -> JObject([title |-> Text("T", e, 0)])
      [] kind = "notitle" -> JObject([text |-> Text("X", e, 0)])
      [] OTHER -> JNumber
ReframeKinds == {"full", "emptytext", "notext", "nonobject"}
ReframeEntry(e, kind) ==
    CASE kind = "full" -> JObject([text |-> Text("R", e, 0)])
      [] kind = "emptytext" -> JObject([text |-> <<>>])
      [] kind = "notext" -> JObject(EmptyDict)
      [] OTHER -> JNull

\* the shapes of an element of the array an input file holds, and the
\* element of shape kind at place e
KindsOf(file) ==
    CASE file = "original" -> OriginalKinds
      [] file = "reframe" -> ReframeKinds
      [] OTHER -> ItemKinds
ElemOf(file, e, kind) ==
    CASE file = "original" -> OriginalEntry(e, kind)
      [] file = "reframe" -> ReframeEntry(e, kind)
      [] OTHER -> ItemsEntry(file, e, kind)
\* an entry of full shape
FullEntry(file) ==
    IF file \in {"original", "reframe"} THEN ElemOf(file, 1, "full")
    ELSE ElemOf(file, 1, <<"items", 1>>)

\* the arrays of up to MaxEntries elements an input file may hold
ArrayDocs(file) ==
    UNION { { JArray([e \in 1..n |-> ElemOf(file, e, ks[e])]) : ks \in [1..n -> KindsOf(file)] }
            : n \in 0..MaxEntries }

\* valid JSON that is not an array: {}, one entry not wrapped in an array,
\* "", a number, null
NonArrayDocs(file) == { JObject(EmptyDict), FullEntry(file), JString(<<>>), JNumber, JNull }

\* the valid JSON documents an input file may hold
Docs(file) == ArrayDocs(file) \cup NonArrayDocs(file)

\* the author names of a pretrain run
Authors == { <<>>, <<"Lu Xun">> }

\* what a run found at an input path: valid JSON shaped as an array of
\* objects, valid JSON of another shape, text that is not JSON, or no file
IsArrayOfObjects(doc) ==
    doc.t = "array" /\ \A i \in DOMAIN doc.v : doc.v[i].t = "object"
Found(doc) ==
    IF doc = InvalidJson THEN "invalid"
    ELSE IF IsArrayOfObjects(doc) THEN "array of objects" ELSE "other shape"

(***************************************************************************)
(* The file system and the open files                                      *)
(***************************************************************************)
\* a faulty variant: the training data goes to the path of the test data
train_output_path_of_test == "test.json"
\* os.path.join(output_dir, "fine_tune.json") (line 130), within output_dir
train_output_path == "fine_tune.json"
\* os.path.join(output_dir, "test.json") (line 136), within output_dir
test_output_path == "test.json"
\* the file output_path names (prepare_pretrain_data.py line 63)
pretrain_output == "pre_train.json"

OutputFiles == {"fine_tune.json", "test.json", "pre_train.json"}
InputFiles == {"mcq", "qa", "style", "original", "reframe"}

\* the content of an output file: no such file; the file of an earlier run;
\* just created or truncated by open(path, 'w'); left by a json.dump that
\* failed part-way; the complete serialisation of a list
Absent == [st |-> "absent", data |-> <<>>]
Old == [st |-> "old", data |-> <<>>]
Truncated == [st |-> "truncated", data |-> <<>>]
Partial == [st |-> "partial", data |-> <<>>]
Written(value) == [st |-> "written", data |-> value]

\* os.path.dirname(output_path) (prepare_pretrain_data.py line 59)
dirname(path) == IF path = "out/pre_train.json" THEN "out" ELSE ""

\* a faulty variant: the file stays open when the block is left by an exception
with_exit_leaks_on_error(files, f, error) == IF error THEN files ELSE files \ {f}
\* leaving a "with open(...) as f" block, normally or by an exception,
\* closes f (lines 14-15, 131-132, 137-138; pretrain 14-15, 63-64)
with_exit(files, f, error) == files \ {f}

\* a faulty variant: text that is not JSON is read as the empty list
json_load_lenient(doc) == IF doc = InvalidJson THEN Returned(JArray(<<>>)) ELSE Returned(doc)
\* json.load(f) (line 15)
json_load(doc) == IF doc = InvalidJson THEN Raised("JSONDecodeError") ELSE Returned(doc)

(***************************************************************************)
(* A run of merge_finetune_data or of merge_json_files (Spec)              *)
(***************************************************************************)
locals_ft == <<mcq_data, qa_data, style_data, converted_mcq, converted_qa,
               converted_style, train_data, test_data>>
locals_pt == <<original_data, reframe_data, converted_original, converted_reframe>>
args == <<pipeline, author, output_path, fs_files0, fs_dirs0>>
status == <<pc, exc, raised_at>>

\* the state of the output location when the run starts: nothing there, or
\* the directories and files of an earlier run
FreshDisk == /\ fs_dirs = {}
             /\ fs_files = [f \in OutputFiles |-> Absent]
UsedDisk == /\ fs_dirs = {"train_with_charlora", "out"}
            /\ fs_files = [f \in OutputFiles |-> Old]
\* a fine-tune run: into the default directory of a fresh disk, or into a
\* named directory that holds the files of an earlier run
FinetuneStart == \/ output_dir = "None" /\ FreshDisk
                 \/ output_dir = "out" /\ UsedDisk

Init ==
    /\ pipeline \in {"finetune", "pretrain"}
    /\ pc = IF pipeline = "finetune" THEN "open_mcq" ELSE "open_original"
    /\ exc = "none" /\ raised_at = "none"
    /\ mcq_data = Unset /\ qa_data = Unset /\ style_data = Unset
    /\ converted_mcq = <<>> /\ converted_qa = <<>> /\ converted_style = <<>>
    /\ merged_data = <<>> /\ train_data = <<>> /\ test_data = <<>>
    /\ original_data = Unset /\ reframe_data = Unset
    /\ converted_original = <<>> /\ converted_reframe = <<>>
    /\ IF pipeline = "finetune"
       THEN /\ author = <<>> /\ output_path = ""
            /\ FinetuneStart
       ELSE /\ author \in Authors
            /\ output_path \in {"None", "pre_train.json", "out/pre_train.json"}
            /\ output_dir = ""
            /\ FreshDisk \/ UsedDisk
    /\ fs_files0 = fs_files /\ fs_dirs0 = fs_dirs
    /\ open_files = {}
    /\ inputs = [f \in InputFiles |-> "unread"]
    /\ data = <<>> /\ train_ratio = TrainRatio /\ ret = NotCalled

\* an exception propagates out of the function: nothing catches it
Raise(e) == pc' = "raised" /\ exc' = e /\ raised_at' = pc
Goto(next) == pc' = next /\ UNCHANGED <<exc, raised_at>>

\* open(file_path, 'r', encoding='utf-8') of load_json_file (line 14)
OpenInput(at, file, next) ==
    /\ pc = at
    /\ \E exists \in BOOLEAN :
          IF exists
          THEN /\ open_files' = open_files \cup {file}
               /\ Goto(next)
               /\ UNCHANGED inputs
          ELSE /\ Raise("FileNotFoundError")
               /\ inputs' = [inputs EXCEPT ![file] = "missing"]
               /\ UNCHANGED open_files
    /\ UNCHANGED <<locals_ft, locals_pt, args, merged_data, output_dir,
                   fs_dirs, fs_files, call_vars>>

\* return json.load(f) of load_json_file (line 15), which leaves the with
\* block, and the print of len(...) that follows the call in the caller
ReadInput(at, file, doc, next) ==
    /\ pc = at
    /\ open_files' = with_exit(open_files, file, json_load(doc).exc # "none")
    /\ inputs' = [inputs EXCEPT ![file] = Found(doc)]
    /\ IF json_load(doc).exc # "none" THEN Raise(json_load(doc).exc)
       ELSE IF ~Sized(json_load(doc).value) THEN Raise("TypeError")
       ELSE Goto(next)
    /\ UNCHANGED <<args, merged_data, output_dir, fs_dirs, fs_files, call_vars>>

\* the value the caller's variable holds after the call
Loaded(doc, old) == IF json_load(doc).exc # "none" THEN old ELSE json_load(doc).value

\* open(path, 'w', encoding='utf-8') creates or truncates the file
OpenOutput(at, file, next) ==
    /\ pc = at
    /\ \E ok \in BOOLEAN :
          IF ok
          THEN /\ fs_files' = [fs_files EXCEPT ![file] = Truncated]
               /\ open_files' = open_files \cup {file}
               /\ Goto(next)
          ELSE /\ Raise("OSError")
               /\ UNCHANGED <<fs_files, open_files>>
    /\ UNCHANGED <<locals_ft, locals_pt, args, merged_data, output_dir,
                   fs_dirs, inputs, call_vars>>

\* json.dump(value, f, ensure_ascii=False, indent=2), which leaves the with block
DumpOutput(at, file, value, next) ==
    /\ pc = at
    /\ \E ok \in BOOLEAN :
          /\ fs_files' = [fs_files EXCEPT ![file] = IF ok THEN Written(value) ELSE Partial]
          /\ open_files' = with_exit(open_files, file, ~ok)
          /\ IF ok THEN Goto(next) ELSE Raise("OSError")
    /\ UNCHANGED <<locals_ft, locals_pt, args, merged_data, output_dir,
                   fs_dirs, inputs, call_vars>>

\* if not os.path.exists(d): os.makedirs(d)
MakeDirs(d, next) ==
    IF d \in fs_dirs
    THEN Goto(next) /\ UNCHANGED fs_dirs
    ELSE \E ok \in BOOLEAN :
            IF ok THEN fs_dirs' = fs_dirs \cup {d} /\ Goto(next)
            ELSE Raise("OSError") /\ UNCHANGED fs_dirs

(***************************************************************************)
(* merge_finetune_data (prepare_finetune_data.py 98-141)                   *)
(***************************************************************************)
\* lines 99-100: mcq_data = load_json_file(mcq_path)
OpenMcq == OpenInput("open_mcq", "mcq", "read_mcq")
ReadMcq ==
    \E doc \in Docs("mcq") \cup {InvalidJson} :
        /\ ReadInput("read_mcq", "mcq", doc, "open_qa")
        /\ mcq_data' = Loaded(doc, mcq_data)
        /\ UNCHANGED <<qa_data, style_data, converted_mcq, converted_qa,
                       converted_style, train_data, test_data, locals_pt>>

\* lines 102-103: qa_data = load_json_file(qa_path)
OpenQa == OpenInput("open_qa", "qa", "read_qa")
ReadQa ==
    \E doc \in Docs("qa") \cup {InvalidJson} :
        /\ ReadInput("read_qa", "qa", doc, "open_style")
        /\ qa_data' = Loaded(doc, qa_data)
        /\ UNCHANGED <<mcq_data, style_data, converted_mcq, converted_qa,
                       converted_style, train_data, test_data, locals_pt>>

\* lines 105-106: style_data = load_json_file(style_path)
OpenStyle == OpenInput("open_style", "style", "read_style")
ReadStyle ==
    \E doc \in Docs("style") \cup {InvalidJson} :
        /\ ReadInput("read_style", "style", doc, "convert")
        /\ style_data' = Loaded(doc, style_data)
        /\ UNCHANGED <<mcq_data, qa_data, converted_mcq, converted_qa,
                       converted_style, train_data, test_data, locals_pt>>

\* lines 108-117: the three conversions, in this order, and the merge
Convert ==
    /\ pc = "convert"
    /\ LET m == convert_mcq_to_alpaca(mcq_data)
           q == convert_qa_to_alpaca(qa_data)
           s == convert_style_to_alpaca(style_data)
       IN  IF m.exc # "none"
           THEN /\ Raise(m.exc)
                /\ UNCHANGED <<converted_mcq, converted_qa, converted_style, merged_data>>
           ELSE IF q.exc # "none"
           THEN /\ Raise(q.exc)
                /\ converted_mcq' = m.value
                /\ UNCHANGED <<converted_qa, converted_style, merged_data>>
           ELSE IF s.exc # "none"
           THEN /\ Raise(s.exc)
                /\ converted_mcq' = m.value /\ converted_qa' = q.value
                /\ UNCHANGED <<converted_style, merged_data>>
           ELSE /\ Goto("split")
                /\ converted_mcq' = m.value /\ converted_qa' = q.value
                /\ converted_style' = s.value
                /\ merged_data' = merged(m.value, q.value, s.value)
    /\ UNCHANGED <<mcq_data, qa_data, style_data, train_data, test_data, locals_pt,
                   args, output_dir, fs_dirs, fs_files, open_files, inputs, call_vars>>

\* lines 119-122: train_data, test_data = split_train_test(merged_data, train_ratio=0.8)
Split ==
    /\ pc = "split"
    /\ LET r == split_train_test(merged_data, TrainRatio)
       IN  train_data' = r.train /\ test_data' = r.test
    /\ Goto("makedirs")
    /\ UNCHANGED <<mcq_data, qa_data, style_data, converted_mcq, converted_qa,
                   converted_style, locals_pt, args, merged_data, output_dir,
                   fs_dirs, fs_files, open_files, inputs, call_vars>>

\* lines 124-127: the default output directory, created if absent
MakeOutputDir ==
    /\ pc = "makedirs"
    /\ output_dir' = IF output_dir = "None" THEN "train_with_charlora" ELSE output_dir
    /\ MakeDirs(output_dir', "open_train")
    /\ UNCHANGED <<locals_ft, locals_pt, args, merged_data, fs_files, open_files,
                   inputs, call_vars>>

\* lines 130-133: the training data is saved
OpenTrain == OpenOutput("open_train", train_output_path, "dump_train")
DumpTrain == DumpOutput("dump_train", train_output_path, train_data, "open_test")

\* lines 136-141: the test data is saved; return True
OpenTest == OpenOutput("open_test", test_output_path, "dump_test")
DumpTest == DumpOutput("dump_test", test_output_path, test_data, "returned")

(***************************************************************************)
(* merge_json_files (prepare_pretrain_data.py 37-66)                       *)
(***************************************************************************)
\* lines 38-40: original_data = load_json_file(original_path)
OpenOriginal == OpenInput("open_original", "original", "read_original")
ReadOriginal ==
    \E doc \in Docs("original") \cup {InvalidJson} :
        /\ ReadInput("read_original", "original", doc, "open_reframe")
        /\ original_data' = Loaded(doc, original_data)
        /\ UNCHANGED <<reframe_data, converted_original, converted_reframe, locals_ft>>

\* lines 42-44: reframe_data = load_json_file(reframe_path)
OpenReframe == OpenInput("open_reframe", "reframe", "read_reframe")
ReadReframe ==
    \E doc \in Docs("reframe") \cup {InvalidJson} :
        /\ ReadInput("read_reframe", "reframe", doc, "convert_pretrain")
        /\ reframe_data' = Loaded(doc, reframe_data)
        /\ UNCHANGED <<original_data, converted_original, converted_reframe, locals_ft>>

\* lines 46-52: the two conversions, in this order, and the merge
ConvertPretrain ==
    /\ pc = "convert_pretrain"
    /\ LET o == convert_original_to_pretrain(original_data, author)
           r == convert_reframe_to_pretrain(reframe_data)
       IN  IF o.exc # "none"
           THEN /\ Raise(o.exc)
                /\ UNCHANGED <<converted_original, converted_reframe, merged_data>>
           ELSE IF r.exc # "none"
           THEN /\ Raise(r.exc)
                /\ converted_original' = o.value
                /\ UNCHANGED <<converted_reframe, merged_data>>
           ELSE /\ Goto("makedirs_pretrain")
                /\ converted_original' = o.value /\ converted_reframe' = r.value
                /\ merged_data' = merged_pretrain(o.value, r.value)
    /\ UNCHANGED <<original_data, reframe_data, locals_ft, args, output_dir,
                   fs_dirs, fs_files, open_files, inputs, call_vars>>

\* lines 55-61: the default output path; its directory, created if absent
MakeParentDir ==
    /\ pc = "makedirs_pretrain"
    /\ output_dir' = dirname(IF output_path = "None" THEN "pre_train.json" ELSE output_path)
    /\ IF output_dir' # ""
       THEN MakeDirs(output_dir', "open_output")
       ELSE Goto("open_output") /\ UNCHANGED fs_dirs
    /\ UNCHANGED <<locals_ft, locals_pt, args, merged_data, fs_files, open_files,
                   inputs, call_vars>>

\* lines 63-66: the merged data is saved; return True
OpenPretrainOutput == OpenOutput("open_output", pretrain_output, "dump_output")
DumpPretrainOutput == DumpOutput("dump_output", pretrain_output, merged_data, "returned")

Next ==
    \/ OpenMcq \/ ReadMcq \/ OpenQa \/ ReadQa \/ OpenStyle \/ ReadStyle
    \/ Convert \/ Split \/ MakeOutputDir
    \/ OpenTrain \/ DumpTrain \/ OpenTest \/ DumpTest
    \/ OpenOriginal \/ ReadOriginal \/ OpenReframe \/ ReadReframe
    \/ ConvertPretrain \/ MakeParentDir \/ OpenPretrainOutput \/ DumpPretrainOutput

Spec == Init /\ [][Next]_vars

(***************************************************************************)
(* Properties of the runs                                                  *)
(***************************************************************************)
\* the run is at, or was aborted at, one of the positions ps
At(ps) == pc \in ps \/ (pc = "raised" /\ raised_at \in ps)

AfterConvert == {"split", "makedirs", "open_train", "dump_train", "open_test",
                 "dump_test", "returned"}
AfterSplit == AfterConvert \ {"split"}
\* merged_data has been assigned in a fine-tune run
Merged == pipeline = "finetune" /\ At(AfterConvert)
\* split_train_test has returned in a fine-tune run
SplitDone == pipeline = "finetune" /\ At(AfterSplit)

\* the entries of a loaded document (a document that is not an array and
\* passes the conversions has none)
EntriesOf(doc) == IF doc.t = "array" THEN doc.v ELSE <<>>

\* C2 as stated: after the split with train_ratio 0.8, every label present
\* in the merged list has at least one record in the training list.
C2_EveryLabelInTraining ==
    SplitDone => \A L \in LabelsIn(merged_data) : Group(train_data, L) # <<>>

\* C2 as amended: after the split with train_ratio 0.8, every label carried
\* by at least two records of the merged list has a record in the training
\* list, and a label carried by exactly one record has none (its only record
\* is in the test list).
C2_LabelsWithTwoRecordsInTraining ==
    SplitDone =>
        \A L \in LabelsIn(merged_data) :
            /\ Len(Group(merged_data, L)) >= 2 => Group(train_data, L) # <<>>
            /\ Len(Group(merged_data, L)) = 1 =>
                  Group(train_data, L) = <<>> /\ Group(test_data, L) = Group(merged_data, L)

\* C2 witness: the split has run on a merged list in which one label has two
\* records and another label has one.
C2_Witness ==
    /\ SplitDone
    /\ \E L \in LabelsIn(merged_data) : Len(Group(merged_data, L)) = 2
    /\ \E L \in LabelsIn(merged_data) : Len(Group(merged_data, L)) = 1

\* some load has failed: the file was missing or its text was not JSON
LoadFailed == \E f \in InputFiles : inputs[f] \in {"missing", "invalid"}
\* the run has neither created a directory nor created or modified a file
NoOutput == fs_dirs = fs_dirs0 /\ fs_files = fs_files0

\* C3: in both pipelines, once the load of any input has failed (missing file
\* or invalid JSON), whatever its place in the load order, the run is aborted
\* and no output directory and no output file is created or modified.
C3_LoadFailureAbortsWithoutOutput ==
    LoadFailed => pc = "raised" /\ raised_at \notin AfterConvert /\ NoOutput

\* C3 witness: a fine-tune run whose first two inputs loaded as arrays of
\* objects and whose third input is not JSON, on a disk that holds the
\* files of an earlier run.
C3_Witness ==
    /\ pipeline = "finetune"
    /\ inputs["mcq"] = "array of objects" /\ inputs["qa"] = "array of objects"
    /\ inputs["style"] = "invalid"
    /\ mcq_data.v # <<>> /\ qa_data.v # <<>>
    /\ pc = "raised" /\ fs_files["fine_tune.json"] = Old

\* C4 as stated: an input that is valid JSON but not an array of objects is a
\* fatal load error: the run never produces output and never returns
\* successfully.
C4_OtherShapeIsFatal ==
    (\E f \in InputFiles : inputs[f] = "other shape") => pc # "returned" /\ NoOutput

\* the place of a record's source item: <<entry number, ".", item number>>,
\* read back from the text the record carries
Origin(rec) ==
    SubSeq(IF rec.label = "2" THEN rec.instruction ELSE rec.input, 2, 4)
\* the <<label, place>> pairs of the items of a document, entry by entry and,
\* within an entry, item by item
RECURSIVE ItemPlaces(_, _, _, _, _)
ItemPlaces(doc, key, label, e, i) ==
    IF e > Len(EntriesOf(doc)) THEN <<>>
    ELSE IF i > Len(Get(EntriesOf(doc)[e].v, key, <<>>))
         THEN ItemPlaces(doc, key, label, e + 1, 1)
         ELSE << <<label, <<ToString(e), ".", ToString(i)>> >> >>
                  \o ItemPlaces(doc, key, label, e, i + 1)
LabelRank(l) == CASE l = "1" -> 1 [] l = "2" -> 2 [] l = "3" -> 3 [] OTHER -> 4

RECURSIVE TotalItems(_, _)
TotalItems(entries, key) ==
    IF entries = <<>> THEN 0
    ELSE Len(Get(Head(entries).v, key, <<>>)) + TotalItems(Tail(entries), key)

C7_TrainFileBeforeTestFile ==
    pipeline = "finetune" =>
        /\ fs_files["test.json"] # fs_files0["test.json"] =>
              fs_files["fine_tune.json"] = Written(train_data)
        /\ fs_files["fine_tune.json"] # fs_files0["fine_tune.json"] =>
              /\ SplitDone
              /\ \A f \in {"mcq", "qa", "style"} : inputs[f] \notin {"unread", "missing", "invalid"}
              /\ train_data = split_train_test(merged_data, TrainRatio).train
              /\ test_data = split_train_test(merged_data, TrainRatio).test
        /\ fs_files["test.json"].st = "written" => fs_files["test.json"].data = test_data

\* C7 witness: a run that failed between the two writes: fine_tune.json holds
\* the new training data and test.json is as it was before the run.
C7_Witness ==
    /\ pipeline = "finetune"
    /\ pc = "raised" /\ raised_at = "open_test"
    /\ train_data # <<>>
    /\ fs_files["fine_tune.json"] = Written(train_data)
    /\ fs_files["test.json"] = fs_files0["test.json"]

\* the file a position of the run has open
FileOpenAt(p) ==
    CASE p = "read_mcq" -> {"mcq"} [] p = "read_qa" -> {"qa"} [] p = "read_style" -> {"style"}
      [] p = "read_original" -> {"original"} [] p = "read_reframe" -> {"reframe"}
      [] p = "dump_train" -> {"fine_tune.json"} [] p = "dump_test" -> {"test.json"}
      [] p = "dump_output" -> {"pre_train.json"}
      [] OTHER -> {}

\* C8: at most one file is open; a file is open only between the open and the
\* end of the read or write of one load or save; and no file is open once the
\* run has ended, by a return or by an exception.
C8_FilesClosedAfterUse ==
    /\ Cardinality(open_files) <= 1
    /\ open_files = FileOpenAt(pc)
    /\ pc \in {"returned", "raised"} => open_files = {}

\* C8 witness: a run aborted by an error raised while a file was open.
C8_Witness ==
    /\ pc = "raised" /\ raised_at \in {"read_qa", "dump_train"}
    /\ exc \in {"JSONDecodeError", "OSError"}
    /\ open_files = {}

====
